---- MODULE Spec2Model ----
(***************************************************************************)
(* AllinB: CRUD handlers for seat_table / room_table (tables/seat.go,      *)
(* tables/room.go) and the background job queue (utils/queue.go).          *)
(*                                                                         *)
(* Four specifications share the variables:                                *)
(*   SpecMain   the job queue as main.go wires it: one worker, and bursts  *)
(*              of EnqueueJob calls long enough to fill the channel;       *)
(*   SpecQueue  the job queue with several workers started through         *)
(*              StartJobWorker / StartJobWorkers(n) and concurrent callers;*)
(*   Spec       the HTTP handlers of one resource over its table, with the *)
(*              enqueue of the notification job;                           *)
(*   SpecQuery  the statements built by GetSeats / GetRooms / Update*.     *)
(***************************************************************************)
EXTENDS Integers, Sequences, FiniteSets, TLC

VARIABLES
    res,                \* the resource whose handlers this behaviour runs
    table,              \* seat_table / room_table: business key -> row
    autoInc,            \* the table's auto_increment sequence (last value given)
    EnqueueJobHandler,  \* utils.EnqueueJobHandler: "nil" or "EnqueueJob"
    jobQueue,           \* utils.jobQueue: the buffered channel's contents, FIFO
    clock,              \* time.Now() of the jobs created so far (a tick per job)
    dropped,            \* jobs EnqueueJob logged as dropped
    started,            \* jobs handed to processJob, in order of the calls
    workers,            \* the worker goroutines: <<[pc, job]>>
    blocked,            \* work goroutines left behind by a timed-out processJob
    reqs,               \* UpdateSeat / UpdateRoom handlers in flight, per connection
    resp,               \* the last request answered: what was asked, what was answered
    listReq             \* the request GetSeats / GetRooms is to serve

vars == <<res, table, autoInc, EnqueueJobHandler, jobQueue, clock, dropped,
          started, workers, blocked, reqs, resp, listReq>>

queueVars == <<jobQueue, clock, dropped, started, workers, blocked>>
httpVars == <<table, autoInc, reqs, resp, listReq>>

(***************************************************************************)
(* Bounds of the model.                                                    *)
(***************************************************************************)
MaxBurst == 102         \* EnqueueJob calls of a SpecMain behaviour
MaxEnqueues == 5        \* EnqueueJob calls of a SpecQueue behaviour
MaxWorkers == 2         \* worker goroutines started in a behaviour
MaxTimeouts == 1        \* processJob calls that leave through ctx.Done()
MaxKey == 2             \* business keys 1..MaxKey
MaxConns == 1           \* connections with an update in flight
MaxInserts == 2         \* rows inserted in a behaviour
MaxUpdates == 1         \* UPDATE statements executed per connection in a behaviour
MaxNames == 2       \* names in an X-Fields header
MaxFilters == 2     \* query parameters in a list request
MaxRacers == 2      \* connections with updates of one row in flight at once

(***************************************************************************)
(* Program constants.                                                      *)
(***************************************************************************)
QueueCap == 100         \* make(chan Job, 100)

Resources == {"seat", "room"}

RECURSIVE SeqToSet(_)
SeqToSet(s) == IF s = <<>> THEN {} ELSE {Head(s)} \cup SeqToSet(Tail(s))

Count(s, x) == Cardinality({i \in 1..Len(s) : s[i] = x})

(***************************************************************************)
(* utils/queue.go                                                          *)
(***************************************************************************)
\* type Job struct { Name; Data; Priority }.  Data holds the business key of
\* the updated row and time.Now().
Job(name, code, t) ==
    [Name |-> name, Data |-> [code |-> code, time |-> t], Priority |-> 0]

ZeroJob == Job("", 0, 0)

JobName(r) == IF r = "seat" THEN "SeatUpdated" ELSE "RoomUpdated"

\* A mutant of EnqueueJobResult: a blocking send, which waits for room and
\* then delivers (the queue grows past its capacity in the model).
EnqueueJobBlocking(queue, job) ==
    [queue |-> Append(queue, job), accepted |-> TRUE]

\* EnqueueJob: select { case jobQueue <- job: ... default: drop }.
EnqueueJobResult(queue, job) ==
    IF Len(queue) < QueueCap
    THEN [queue |-> Append(queue, job), accepted |-> TRUE]
    ELSE [queue |-> queue, accepted |-> FALSE]

EnqueueJob(job) ==
    LET r == EnqueueJobResult(jobQueue, job)
    IN  /\ jobQueue' = r.queue
        /\ dropped' = IF r.accepted THEN dropped ELSE dropped \cup {job}

\* SetEnqueueJobFunc(fn)
SetEnqueueJobFunc(fn) ==
    /\ EnqueueJobHandler' = fn
    /\ UNCHANGED <<res, queueVars, httpVars>>

\* A goroutine calling utils.EnqueueJob; a behaviour makes at most maxCalls.
EnqueueJobCall(maxCalls) ==
    /\ clock < maxCalls
    /\ clock' = clock + 1
    /\ EnqueueJob(Job(JobName(res), 1, clock + 1))
    /\ UNCHANGED <<res, EnqueueJobHandler, started, workers, blocked, httpVars>>

Worker(pc, job) == [pc |-> pc, job |-> job]

\* StartJobWorker: one goroutine ranging over jobQueue.
StartJobWorker ==
    /\ Len(workers) < MaxWorkers
    /\ workers' = Append(workers, Worker("range", ZeroJob))
    /\ UNCHANGED <<res, EnqueueJobHandler, jobQueue, clock, dropped, started,
                   blocked, httpVars>>

\* StartJobWorkers(workerCount): workerCount goroutines ranging over jobQueue.
StartJobWorkers(workerCount) ==
    /\ Len(workers) + workerCount <= MaxWorkers
    /\ workers' = workers \o [i \in 1..workerCount |-> Worker("range", ZeroJob)]
    /\ UNCHANGED <<res, EnqueueJobHandler, jobQueue, clock, dropped, started,
                   blocked, httpVars>>

\* A mutant of Receive's dequeue: the job is read and left in the channel.
DequeuePeek(queue) == [job |-> Head(queue), queue |-> queue]

\* for job := range jobQueue: the receive takes the head of the channel.
Dequeue(queue) == [job |-> Head(queue), queue |-> Tail(queue)]

\* The worker loop's receive and the call processJob(job) up to its select:
\* the context, the done channel and the work goroutine are created.
Receive(w) ==
    /\ workers[w].pc = "range"
    /\ jobQueue # <<>>
    /\ LET d == Dequeue(jobQueue)
       IN  /\ jobQueue' = d.queue
           /\ workers' = [workers EXCEPT ![w] = Worker("select", d.job)]
           /\ started' = Append(started, d.job)
    /\ UNCHANGED <<res, EnqueueJobHandler, clock, dropped, blocked, httpVars>>

\* processJob, case <-done: the work goroutine's send on the unbuffered
\* channel meets the select; the goroutine ends and the worker loops.
JobDone(w) ==
    /\ workers[w].pc = "select"
    /\ workers' = [workers EXCEPT ![w] = Worker("range", ZeroJob)]
    /\ UNCHANGED <<res, EnqueueJobHandler, jobQueue, clock, dropped, started,
                   blocked, httpVars>>

\* A mutant of JobTimeout: the timed-out job is put back into the channel.
JobTimeoutRequeue(w) ==
    /\ workers[w].pc = "select"
    /\ blocked < MaxTimeouts
    /\ workers' = [workers EXCEPT ![w] = Worker("range", ZeroJob)]
    /\ blocked' = blocked + 1
    /\ jobQueue' = Append(jobQueue, workers[w].job)
    /\ UNCHANGED <<res, EnqueueJobHandler, clock, dropped, started, httpVars>>

\* processJob, case <-ctx.Done(): the deadline passes before the work
\* goroutine sends; processJob returns and nothing receives from done.
JobTimeout(w) ==
    /\ workers[w].pc = "select"
    /\ blocked < MaxTimeouts
    /\ workers' = [workers EXCEPT ![w] = Worker("range", ZeroJob)]
    /\ blocked' = blocked + 1
    /\ UNCHANGED <<res, EnqueueJobHandler, jobQueue, clock, dropped, started,
                   httpVars>>

InitQueue ==
    /\ res \in Resources
    /\ table = <<>>
    /\ autoInc = 0
    /\ EnqueueJobHandler = "nil"
    /\ jobQueue = <<>>
    /\ clock = 0
    /\ dropped = {}
    /\ started = <<>>
    /\ workers = <<>>
    /\ blocked = 0
    /\ reqs = [c \in 1..MaxConns |-> [pc |-> "idle", seatCode |-> 0, query |-> <<>>, args |-> <<>>]]
    /\ resp = [op |-> "", status |-> 0, msg |-> "", rec |-> <<>>]
    /\ listReq = [pending |-> FALSE, header |-> <<>>, params |-> <<>>,
                  order |-> <<>>, search |-> "", sort |-> <<>>]

NextQueue ==
    \/ EnqueueJobCall(MaxEnqueues)
    \/ StartJobWorker
    \/ \E n \in 1..MaxWorkers : StartJobWorkers(n)
    \/ \E w \in 1..Len(workers) : Receive(w)
    \/ \E w \in 1..Len(workers) : JobDone(w)
    \/ \E w \in 1..Len(workers) : JobTimeout(w)

SpecQueue == InitQueue /\ [][NextQueue]_vars

\* main(): utils.SetEnqueueJobFunc(utils.EnqueueJob); utils.StartJobWorker().
MainSetup ==
    /\ EnqueueJobHandler = "nil"
    /\ workers = <<>>
    /\ EnqueueJobHandler' = "EnqueueJob"
    /\ workers' = <<Worker("range", ZeroJob)>>
    /\ UNCHANGED <<res, jobQueue, clock, dropped, started, blocked, httpVars>>

\* The handlers call the registered function once main has set it.
MainEnqueue ==
    /\ EnqueueJobHandler = "EnqueueJob"
    /\ EnqueueJobCall(MaxBurst)

NextMain ==
    \/ MainSetup
    \/ MainEnqueue
    \/ \E w \in 1..Len(workers) : Receive(w)
    \/ \E w \in 1..Len(workers) : JobDone(w)
    \/ \E w \in 1..Len(workers) : JobTimeout(w)

SpecMain == InitQueue /\ [][NextMain]_vars

\* The worker goroutines under a fair scheduler: a worker at its receive
\* takes a job when the channel holds one, and the select of processJob
\* returns, through done or when the deadline of DEFAULT_WORK_TIMEOUT
\* seconds passes.
FairWorkers ==
    \A w \in 1..MaxWorkers :
        /\ WF_vars(w <= Len(workers) /\ Receive(w))
        /\ WF_vars(w <= Len(workers) /\ (JobDone(w) \/ JobTimeout(w)))

SpecQueueFair == SpecQueue /\ FairWorkers

\* main's worker and the handlers' calls from a channel that is full of jobs
\* accepted earlier, under the fair scheduler.
InitDrain ==
    /\ res \in Resources
    /\ table = <<>>
    /\ autoInc = 0
    /\ EnqueueJobHandler = "nil"
    /\ jobQueue = [i \in 1..QueueCap |-> Job(JobName(res), 1, i - QueueCap)]
    /\ clock = 0
    /\ dropped = {}
    /\ started = <<>>
    /\ workers = <<>>
    /\ blocked = 0
    /\ reqs = [c \in 1..MaxConns |-> [pc |-> "idle", seatCode |-> 0, query |-> <<>>, args |-> <<>>]]
    /\ resp = [op |-> "", status |-> 0, msg |-> "", rec |-> <<>>]
    /\ listReq = [pending |-> FALSE, header |-> <<>>, params |-> <<>>,
                  order |-> <<>>, search |-> "", sort |-> <<>>]

\* A handler calling the registered function; MaxEnqueues calls at most.
DrainEnqueue ==
    /\ EnqueueJobHandler = "EnqueueJob"
    /\ EnqueueJobCall(MaxEnqueues)

NextDrain ==
    \/ MainSetup
    \/ DrainEnqueue
    \/ \E w \in 1..Len(workers) : Receive(w)
    \/ \E w \in 1..Len(workers) : JobDone(w)
    \/ \E w \in 1..Len(workers) : JobTimeout(w)

SpecDrainFair == InitDrain /\ [][NextDrain]_vars /\ FairWorkers

(***************************************************************************)
(* tables/seat.go, tables/room.go: the records and the request values.     *)
(* The two files are the same handlers over seat_table and room_table;     *)
(* the tables are disjoint and no handler touches both, so a behaviour     *)
(* runs the handlers of one resource, res, over its table.                 *)
(***************************************************************************)
Fld(r, s) == r \o "_" \o s

\* The names of a resource, computed once: the column list (allowedFields of
\* GetSeats / GetRooms, which is the field list of type Seat / Room), the
\* string fields (the others are int), the columns an update may set
\* (allowed of UpdateSeat / UpdateRoom) and the zero value of the type.
Schema ==
    [r \in Resources |->
        LET fields ==
                << "auto_increment", "company_code", Fld(r, "code"), Fld(r, "title"),
                   "title_background_color", "title_text_color",
                   Fld(r, "background_color"),
                   Fld(r, "top"), Fld(r, "left"), Fld(r, "width"), Fld(r, "height"),
                   "gender", "waiting", "release", "hide_title",
                   "transparent_background", "hide_border", "kiosk_disabled",
                   "power_control", "breaker_number" >>
            strings ==
                {Fld(r, "title"), "title_background_color", "title_text_color",
                 Fld(r, "background_color")}
            columns == {fields[i] : i \in 1..Len(fields)}
        IN  [fields |-> fields,
             columns |-> columns,
             strings |-> strings,
             allowed |->
                {"company_code", Fld(r, "title"), Fld(r, "background_color"),
                 Fld(r, "top"), Fld(r, "left"), Fld(r, "width"), Fld(r, "height"),
                 "title_background_color", "title_text_color",
                 "gender", "waiting", "release", "hide_title",
                 "transparent_background", "hide_border", "kiosk_disabled",
                 "power_control", "breaker_number"},
             zero |-> [c \in columns |-> IF c \in strings THEN "" ELSE 0],
             code |-> Fld(r, "code"),
             title |-> Fld(r, "title"),
             width |-> Fld(r, "width"),
             height |-> Fld(r, "height"),
             background |-> Fld(r, "background_color"),
             table |-> Fld(r, "table")]]

CodeCol(r) == Schema[r].code
TableName(r) == Schema[r].table
allowedFields(r) == Schema[r].fields
Columns(r) == Schema[r].columns
StringCols(r) == Schema[r].strings

\* var seat Seat: the zero value.
ZeroRecord(r) == Schema[r].zero

\* A JSON number decodes to float64; Num(h) is the number h/2.
Num(h) == [t |-> "float64", v |-> h]
Str(s) == [t |-> "string", v |-> s]

\* int(v) of a float64: truncation toward zero.
Trunc(h) == IF h >= 0 THEN h \div 2 ELSE -((-h) \div 2)

\* strconv.Itoa and strconv.Atoi on the numerals the model uses.
Numerals ==
    << "1", "2", "3", "4", "5", "6", "7", "8", "9", "10",
       "11", "12", "13", "14", "15", "16", "17", "18", "19", "20" >>

Itoa(n) == IF n = 0 THEN "0" ELSE Numerals[n]

Atoi(s) ==
    IF s = "0" THEN [err |-> FALSE, n |-> 0]
    ELSE IF \E i \in 1..Len(Numerals) : Numerals[i] = s
         THEN [err |-> FALSE, n |-> CHOOSE i \in 1..Len(Numerals) : Numerals[i] = s]
         ELSE [err |-> TRUE, n |-> 0]

\* A request body: a JSON object (key -> value) or text that is no JSON.
Object(obj) == [json |-> "object", obj |-> obj]
Malformed == [json |-> "malformed", obj |-> <<>>]

\* What a handler answered: the status, http.Error's message (named by what
\* it says) and the record encoded into the body.
Response(op, status, msg, rec) ==
    [op |-> op, status |-> status, msg |-> msg, rec |-> rec]

NoRecord == <<>>

(***************************************************************************)
(* The database: one table with a unique business key and a serial         *)
(* auto_increment column.  dbOk = FALSE is a call that fails (connection,  *)
(* deadline of DEFAULT_QUERY_TIMEOUT seconds).                             *)
(***************************************************************************)
Put(tbl, k, row) ==
    [x \in DOMAIN tbl \cup {k} |-> IF x = k THEN row ELSE tbl[x]]

Remove(tbl, k) == [x \in DOMAIN tbl \ {k} |-> tbl[x]]

\* A mutant of DecodeRecord's defaults: the height default is not applied.
ApplyDefaultsNoHeight(r, rec) ==
    [rec EXCEPT
        ![Schema[r].width] = IF @ = 0 THEN 100 ELSE @,
        ![Schema[r].background] = IF @ = "" THEN "#FFFFFF" ELSE @,
        !["title_background_color"] = IF @ = "" THEN "#000000" ELSE @,
        !["title_text_color"] = IF @ = "" THEN "#FFFFFF" ELSE @]

\* CreateSeat / CreateRoom: the defaults of the unset fields.
ApplyDefaults(r, rec) ==
    [rec EXCEPT
        ![Schema[r].width] = IF @ = 0 THEN 100 ELSE @,
        ![Schema[r].height] = IF @ = 0 THEN 100 ELSE @,
        ![Schema[r].background] = IF @ = "" THEN "#FFFFFF" ELSE @,
        !["title_background_color"] = IF @ = "" THEN "#000000" ELSE @,
        !["title_text_color"] = IF @ = "" THEN "#FFFFFF" ELSE @]

\* json.Decode into a Seat / Room: a key that is no field is skipped, a
\* number must be whole to go into an int field, and a value of the other
\* type is an error.
FieldFits(r, c, val) ==
    IF c \in StringCols(r) THEN val.t = "string"
    ELSE val.t = "float64" /\ val.v % 2 = 0

FieldValue(val) == IF val.t = "float64" THEN val.v \div 2 ELSE val.v

DecodeRecord(r, body) ==
    IF body.json # "object" THEN [err |-> TRUE, rec |-> ZeroRecord(r)]
    ELSE LET known == DOMAIN body.obj \cap Columns(r)
             zero == ZeroRecord(r)
         IN  [err |-> \E c \in known : ~FieldFits(r, c, body.obj[c]),
              rec |-> [c \in DOMAIN zero |->
                         IF c \in known /\ FieldFits(r, c, body.obj[c])
                         THEN FieldValue(body.obj[c])
                         ELSE zero[c]]]

\* A mutant of InsertRow: no unique constraint, the row of the key is replaced.
InsertRowUnchecked(tbl, serial, r, rec) ==
    [err |-> "",
     table |-> Put(tbl, rec[CodeCol(r)], [rec EXCEPT !["auto_increment"] = serial + 1])]

\* INSERT INTO seat_table (...) VALUES ($1 .. $19): every column but
\* auto_increment, which the table assigns.
InsertRow(tbl, serial, r, rec) ==
    IF rec[CodeCol(r)] \in DOMAIN tbl
    THEN [err |-> "duplicate key", table |-> tbl]
    ELSE [err |-> "",
          table |-> Put(tbl, rec[CodeCol(r)],
                        [rec EXCEPT !["auto_increment"] = serial + 1])]

\* SELECT ... FROM seat_table WHERE seat_code = $1, scanned into a Seat.
QueryRow(tbl, k) ==
    IF k \in DOMAIN tbl THEN [err |-> "", rec |-> tbl[k]]
    ELSE [err |-> "sql.ErrNoRows", rec |-> NoRecord]

(***************************************************************************)
(* GetSeat / GetRoom, CreateSeat / CreateRoom, DeleteSeat / DeleteRoom:    *)
(* one database call each.                                                 *)
(***************************************************************************)
GetResult(tbl, pathVar, dbOk) ==
    LET code == Atoi(pathVar)
        q == QueryRow(tbl, code.n)
    IN  IF code.err THEN Response("Get", 400, "bad code", NoRecord)
        ELSE IF ~dbOk THEN Response("Get", 500, "db error", NoRecord)
        ELSE IF q.err = "sql.ErrNoRows"
             THEN Response("Get", 404, "not found", NoRecord)
        ELSE Response("Get", 200, "", q.rec)

Get(pathVar, dbOk) ==
    /\ resp' = GetResult(table, pathVar, dbOk)
    /\ UNCHANGED <<res, table, autoInc, EnqueueJobHandler, queueVars, reqs, listReq>>

Create(body, dbOk) ==
    LET d == DecodeRecord(res, body)
        rec == ApplyDefaults(res, d.rec)
        ins == InsertRow(table, autoInc, res, rec)
    IN  /\ autoInc < MaxInserts
        /\ IF d.err
           THEN /\ resp' = Response("Create", 400, "bad request data", NoRecord)
                /\ UNCHANGED <<table, autoInc>>
           ELSE IF ~dbOk
           THEN /\ resp' = Response("Create", 500, "db error", NoRecord)
                /\ UNCHANGED <<table, autoInc>>
           ELSE IF ins.err = "duplicate key"
           THEN /\ resp' = Response("Create", 400, "already exists", NoRecord)
                /\ UNCHANGED <<table, autoInc>>
           ELSE /\ resp' = Response("Create", 201, "", rec)
                /\ table' = ins.table
                /\ autoInc' = autoInc + 1
        /\ UNCHANGED <<res, EnqueueJobHandler, queueVars, reqs, listReq>>

\* A mutant of DeleteResult: an existence check that answers 404.
DeleteResultChecked(tbl, pathVar, dbOk) ==
    LET code == Atoi(pathVar)
    IN  IF code.err
        THEN [resp |-> Response("Delete", 400, "bad code", NoRecord), table |-> tbl]
        ELSE IF ~dbOk
        THEN [resp |-> Response("Delete", 500, "db error", NoRecord), table |-> tbl]
        ELSE IF code.n \notin DOMAIN tbl
        THEN [resp |-> Response("Delete", 404, "not found", NoRecord), table |-> tbl]
        ELSE [resp |-> Response("Delete", 204, "", NoRecord),
              table |-> Remove(tbl, code.n)]

\* DELETE FROM seat_table WHERE seat_code = $1: no row is no error.
DeleteResult(tbl, pathVar, dbOk) ==
    LET code == Atoi(pathVar)
    IN  IF code.err
        THEN [resp |-> Response("Delete", 400, "bad code", NoRecord), table |-> tbl]
        ELSE IF ~dbOk
        THEN [resp |-> Response("Delete", 500, "db error", NoRecord), table |-> tbl]
        ELSE [resp |-> Response("Delete", 204, "", NoRecord),
              table |-> Remove(tbl, code.n)]

Delete(pathVar, dbOk) ==
    LET d == DeleteResult(table, pathVar, dbOk)
    IN  /\ resp' = d.resp
        /\ table' = d.table
        /\ UNCHANGED <<res, autoInc, EnqueueJobHandler, queueVars, reqs, listReq>>

(***************************************************************************)
(* UpdateSeat / UpdateRoom.  The handler makes two database calls, the     *)
(* UPDATE and the SELECT of the row it answers with; other requests run    *)
(* between the two.                                                        *)
(***************************************************************************)
\* A mutant of allowed: the surrogate key may be set.
allowedWithSurrogate(r) == Schema[r].allowed \cup {"auto_increment"}

\* allowed: the columns an update may set.
allowed(r) == Schema[r].allowed

RECURSIVE Perms(_)
Perms(S) ==
    IF S = {} THEN {<<>>}
    ELSE UNION {{<<x>> \o p : p \in Perms(S \ {x})} : x \in S}

RECURSIVE Filter(_, _)
Filter(s, S) ==
    IF s = <<>> THEN <<>>
    ELSE IF Head(s) \in S THEN <<Head(s)>> \o Filter(Tail(s), S)
    ELSE Filter(Tail(s), S)

RECURSIVE Join(_, _)
Join(parts, sep) ==
    IF parts = <<>> THEN <<>>
    ELSE IF Len(parts) = 1 THEN Head(parts)
    ELSE Head(parts) \o <<sep>> \o Join(Tail(parts), sep)

\* "$" + strconv.Itoa(idx), computed once.
Placeholders == [i \in 1..Len(Numerals) |-> "$" \o Itoa(i)]

Placeholder(i) == Placeholders[i]

IntArg(n) == [t |-> "int", v |-> n]

\* The check of the body's seat_code / room_code against the path key:
\* "ok" (absent, or a float64 v with int(v) = seatCode), or the refusal.
CodeCheck(r, data, seatCode) ==
    IF CodeCol(r) \notin DOMAIN data THEN "ok"
    ELSE IF data[CodeCol(r)].t = "float64"
         THEN IF Trunc(data[CodeCol(r)].v) # seatCode THEN "code mismatch" ELSE "ok"
         ELSE "bad code value"

\* The loop over updateData, in the order the map is ranged over: the SET
\* clauses "key = $idx" of the allowed keys and their values.
SetClauses(r, order) ==
    LET cols == Filter(order, allowed(r))
    IN  [i \in 1..Len(cols) |-> <<cols[i], "=", Placeholder(i)>>]

SetArgs(r, data, order) ==
    LET cols == Filter(order, allowed(r))
    IN  [i \in 1..Len(cols) |-> data[cols[i]]]

\* query := "UPDATE seat_table SET " + Join(updates, ", ") +
\*          " WHERE seat_code = $" + Itoa(idx), as a sequence of words.
UpdateQuery(r, updates) ==
    <<"UPDATE", TableName(r), "SET">> \o Join(updates, ",")
        \o <<"WHERE", CodeCol(r), "=", Placeholder(Len(updates) + 1)>>

\* A mutant of UpdatePlan: the WHERE placeholder is bound to another key.
UpdatePlanOtherKey(r, pathVar, body, order) ==
    LET code == Atoi(pathVar)
        check == CodeCheck(r, body.obj, code.n)
        data == [k \in DOMAIN body.obj \ {CodeCol(r)} |-> body.obj[k]]
        updates == SetClauses(r, order)
        refuse(msg) == [msg |-> msg, seatCode |-> 0, query |-> <<>>, args |-> <<>>]
    IN  IF code.err THEN refuse("bad code")
        ELSE IF body.json # "object" THEN refuse("bad request data")
        ELSE IF check # "ok" THEN refuse(check)
        ELSE IF DOMAIN data = {} THEN refuse("no fields")
        ELSE IF Len(updates) = 0 THEN refuse("no valid fields")
        ELSE [msg |-> "", seatCode |-> code.n,
              query |-> UpdateQuery(r, updates),
              args |-> SetArgs(r, data, order) \o <<IntArg((code.n % MaxKey) + 1)>>]

\* The handler up to the UPDATE: the refusal (400) or the statement.
UpdatePlan(r, pathVar, body, order) ==
    LET code == Atoi(pathVar)
        check == CodeCheck(r, body.obj, code.n)
        data == [k \in DOMAIN body.obj \ {CodeCol(r)} |-> body.obj[k]]
        updates == SetClauses(r, order)
        refuse(msg) == [msg |-> msg, seatCode |-> 0, query |-> <<>>, args |-> <<>>]
    IN  IF code.err THEN refuse("bad code")
        ELSE IF body.json # "object" THEN refuse("bad request data")
        ELSE IF check # "ok" THEN refuse(check)
        ELSE IF DOMAIN data = {} THEN refuse("no fields")
        ELSE IF Len(updates) = 0 THEN refuse("no valid fields")
        ELSE [msg |-> "", seatCode |-> code.n,
              query |-> UpdateQuery(r, updates),
              args |-> SetArgs(r, data, order) \o <<IntArg(code.n)>>]

\* The database binds a value to a column of its type.
Binds(r, col, val) ==
    IF col \in StringCols(r) THEN val.t = "string"
    ELSE val.t = "int" \/ (val.t = "float64" /\ val.v % 2 = 0)

Bound(val) == IF val.t = "float64" THEN val.v \div 2 ELSE val.v

PlaceholderIndex(word) == CHOOSE i \in 1..Len(Placeholders) : Placeholders[i] = word

\* The database executing UPDATE t SET c1 = $1, ... WHERE code = $n with
\* args: the i-th SET column takes the argument its placeholder names, in
\* the row whose business key is the argument of the WHERE placeholder.
ExecUpdate(tbl, r, query, args) ==
    LET n == (Len(query) - 6) \div 4
        col(i) == query[4 * i]
        arg(i) == args[PlaceholderIndex(query[4 * i + 2])]
        key == args[PlaceholderIndex(query[4 * n + 6])]
        sets == {col(i) : i \in 1..n}
        last(c) == CHOOSE i \in 1..n : col(i) = c /\ \A j \in 1..n : col(j) = c => j <= i
    IN  IF \/ \E i \in 1..n : ~Binds(r, col(i), arg(i))
           \/ ~Binds(r, query[4 * n + 4], key)
        THEN [err |-> "db error", table |-> tbl]
        ELSE IF Bound(key) \notin DOMAIN tbl
        THEN [err |-> "", table |-> tbl]
        ELSE [err |-> "",
              table |-> [tbl EXCEPT ![Bound(key)] =
                            [c \in DOMAIN @ |->
                                IF c \in sets THEN Bound(arg(last(c))) ELSE @[c]]]]

Handler(pc, seatCode, query, args) ==
    [pc |-> pc, seatCode |-> seatCode, query |-> query, args |-> args]

Idle == Handler("idle", 0, <<>>, <<>>)

Conns == 1..MaxConns

\* if utils.EnqueueJobHandler != nil { utils.EnqueueJobHandler(job) }
Notify(handler, queue, job) ==
    IF handler = "nil" THEN [queue |-> queue, accepted |-> FALSE]
    ELSE EnqueueJobResult(queue, job)

NoResponse == Response("", 0, "", NoRecord)

Outcome(resp_, tbl, queue, drops, handler) ==
    [resp |-> resp_, table |-> tbl, queue |-> queue, dropped |-> drops,
     handler |-> handler]

\* A mutant of UpdateOutcome: the enqueue reports a full queue and the
\* handler answers 500 for it.
UpdateOutcomeSurfaced(tbl, handler, queue, clk, r, plan, dbOk) ==
    LET exec == ExecUpdate(tbl, r, plan.query, plan.args)
        job == Job(JobName(r), plan.seatCode, clk + 1)
        sent == Notify(handler, queue, job)
    IN  IF plan.msg # ""
        THEN Outcome(Response("Update", 400, plan.msg, NoRecord), tbl, queue, {}, Idle)
        ELSE IF ~dbOk \/ exec.err # ""
        THEN Outcome(Response("Update", 500, "db error", NoRecord), tbl, queue, {}, Idle)
        ELSE IF handler # "nil" /\ ~sent.accepted
        THEN Outcome(Response("Update", 500, "queue full", NoRecord), exec.table,
                     queue, {job}, Idle)
        ELSE Outcome(NoResponse, exec.table, sent.queue, {},
                     Handler("refetch", plan.seatCode, plan.query, plan.args))

\* The handler from the checked request (plan) to the hand-over of the job:
\* the UPDATE, and the job given to the registered function.  The outcome is the
\* answer (if the handler returns here), the table, the queue, the job
\* dropped (if any) and the handler's state.
UpdateOutcome(tbl, handler, queue, clk, r, plan, dbOk) ==
    LET exec == ExecUpdate(tbl, r, plan.query, plan.args)
        job == Job(JobName(r), plan.seatCode, clk + 1)
        sent == Notify(handler, queue, job)
    IN  IF plan.msg # ""
        THEN Outcome(Response("Update", 400, plan.msg, NoRecord), tbl, queue, {}, Idle)
        ELSE IF ~dbOk \/ exec.err # ""
        THEN Outcome(Response("Update", 500, "db error", NoRecord), tbl, queue, {}, Idle)
        ELSE Outcome(NoResponse, exec.table, sent.queue,
                     IF handler # "nil" /\ ~sent.accepted THEN {job} ELSE {},
                     Handler("refetch", plan.seatCode, plan.query, plan.args))

UpdateExec(c, plan, dbOk) ==
    LET out == UpdateOutcome(table, EnqueueJobHandler, jobQueue, clock, res,
                             plan, dbOk)
    IN  /\ reqs[c].pc = "idle"
        /\ clock < MaxUpdates * Len(reqs)
        /\ resp' = IF out.handler.pc = "idle" THEN out.resp ELSE resp
        /\ table' = out.table
        /\ jobQueue' = out.queue
        /\ dropped' = dropped \cup out.dropped
        /\ reqs' = [reqs EXCEPT ![c] = out.handler]
        /\ clock' = IF out.handler.pc = "idle" THEN clock ELSE clock + 1
        /\ UNCHANGED <<res, autoInc, EnqueueJobHandler, started, workers, blocked, listReq>>

\* The SELECT after the update: every error, sql.ErrNoRows too, is answered
\* 500 with err.Error().
RefetchResult(tbl, seatCode, dbOk) ==
    LET q == QueryRow(tbl, seatCode)
    IN  IF ~dbOk THEN Response("Update", 500, "db error", NoRecord)
        ELSE IF q.err # ""
        THEN Response("Update", 500, "sql: no rows in result set", NoRecord)
        ELSE Response("Update", 200, "", q.rec)

UpdateRefetch(c, dbOk) ==
    /\ reqs[c].pc = "refetch"
    /\ resp' = RefetchResult(table, reqs[c].seatCode, dbOk)
    /\ reqs' = [reqs EXCEPT ![c] = Idle]
    /\ UNCHANGED <<res, table, autoInc, EnqueueJobHandler, queueVars, listReq>>

(***************************************************************************)
(* GetSeats / GetRooms.  The text of a header or of a query parameter is a *)
(* sequence of pieces: a blank, a comma, or a run of other characters.     *)
(***************************************************************************)
Blank == " "
Comma == ","

ListRequest(pending, header, params, order, search, sort) ==
    [pending |-> pending, header |-> header, params |-> params,
     order |-> order, search |-> search, sort |-> sort]

\* The string a text spells.
RECURSIVE Concat(_)
Concat(text) == IF text = <<>> THEN "" ELSE Head(text) \o Concat(Tail(text))

Reverse(text) == [i \in 1..Len(text) |-> text[Len(text) + 1 - i]]

RECURSIVE TrimLeft(_)
TrimLeft(text) ==
    IF text # <<>> /\ Head(text) = Blank THEN TrimLeft(Tail(text)) ELSE text

\* strings.TrimSpace
TrimSpace(text) == Reverse(TrimLeft(Reverse(TrimLeft(text))))

\* strings.Split(text, ","): the texts between the commas, one at least.
RECURSIVE Split(_)
Split(text) ==
    IF \A i \in 1..Len(text) : text[i] # Comma
    THEN <<text>>
    ELSE LET i == CHOOSE j \in 1..Len(text) :
                      text[j] = Comma /\ \A k \in 1..(j - 1) : text[k] # Comma
         IN  <<SubSeq(text, 1, i - 1)>> \o Split(SubSeq(text, i + 1, Len(text)))

\* for _, f := range requested: the trimmed names found in allowedSet.
RECURSIVE Requested(_, _)
Requested(r, requested) ==
    IF requested = <<>> THEN <<>>
    ELSE LET f == Concat(TrimSpace(Head(requested)))
         IN  (IF f \in Columns(r) THEN <<f>> ELSE <<>>)
                 \o Requested(r, Tail(requested))

\* A mutant of SelectFields: no name of the header allowed, none selected.
SelectFieldsClosed(r, fieldsHeader) ==
    IF fieldsHeader # <<>>
    THEN Requested(r, Split(fieldsHeader))
    ELSE allowedFields(r)

\* The field selection: fields, from the X-Fields header.
SelectFields(r, fieldsHeader) ==
    IF fieldsHeader # <<>>
    THEN LET fields == Requested(r, Split(fieldsHeader))
         IN  IF Len(fields) = 0 THEN allowedFields(r) ELSE fields
    ELSE allowedFields(r)

\* filterParams of GetSeats: query parameter -> column.
filterParams ==
    [p \in {"company_code", "seat_code", "gender", "waiting", "release",
            "kiosk_disabled", "power_control"} |-> p]

\* r.URL.Query().Get(param): "" when the parameter is absent.
QueryGet(params, param) == IF param \in DOMAIN params THEN params[param] ELSE ""

\* for param, dbField := range filterParams, in the order the map yields:
\* the conditions and arguments of the parameters present.
RECURSIVE Filters(_, _, _)
Filters(params, order, paramIdx) ==
    IF order = <<>> THEN [filters |-> <<>>, args |-> <<>>, paramIdx |-> paramIdx]
    ELSE LET value == QueryGet(params, Head(order))
         IN  IF value # ""
             THEN LET rest == Filters(params, Tail(order), paramIdx + 1)
                  IN  [filters |-> << <<filterParams[Head(order)], "=", Placeholder(paramIdx)>> >>
                                      \o rest.filters,
                       args |-> <<Str(value)>> \o rest.args,
                       paramIdx |-> rest.paramIdx]
             ELSE Filters(params, Tail(order), paramIdx)

\* The search condition on seat_title.
Search(search, paramIdx) ==
    IF search # ""
    THEN [filters |-> << <<"seat_title", "LIKE", Placeholder(paramIdx)>> >>,
          args |-> <<Str("%" \o search \o "%")>>]
    ELSE [filters |-> <<>>, args |-> <<>>]

allowedSortFields == {"seat_code", "seat_title", "auto_increment"}

\* A mutant of SortClause: an unknown sort column falls back to the default.
SortClauseDefaulting(sort) ==
    IF sort # <<>>
    THEN LET desc == Head(sort) = "-"
             name == IF desc THEN Concat(Tail(sort)) ELSE Concat(sort)
             direction == IF desc THEN "DESC" ELSE "ASC"
         IN  IF name \in {"seat_code", "seat_title", "auto_increment"}
             THEN <<"ORDER BY", name, direction>>
             ELSE <<"ORDER BY", "seat_code", "ASC">>
    ELSE <<"ORDER BY", "seat_code", "ASC">>

\* A mutant of SortClause: the sort column is not looked up.
SortClauseUnchecked(sort) ==
    IF sort # <<>>
    THEN IF Head(sort) = "-"
         THEN <<"ORDER BY", Concat(Tail(sort)), "DESC">>
         ELSE <<"ORDER BY", Concat(sort), "ASC">>
    ELSE <<"ORDER BY", "seat_code", "ASC">>

\* The sort option: the ORDER BY clause, or none.
SortClause(sort) ==
    IF sort # <<>>
    THEN LET desc == Head(sort) = "-"
             name == IF desc THEN Concat(Tail(sort)) ELSE Concat(sort)
             direction == IF desc THEN "DESC" ELSE "ASC"
         IN  IF name \in allowedSortFields
             THEN <<"ORDER BY", name, direction>>
             ELSE <<>>
    ELSE <<"ORDER BY", "seat_code", "ASC">>

\* The words of a list of names (conditions) joined by sep.
JoinNames(names, sep) == Join([i \in 1..Len(names) |-> <<names[i]>>], sep)

\* The statement GetSeats builds and its arguments.
SeatsQuery(req) ==
    LET fields == SelectFields("seat", req.header)
        byParam == Filters(req.params, req.order, 1)
        bySearch == Search(req.search, byParam.paramIdx)
        filters == byParam.filters \o bySearch.filters
    IN  [fields |-> fields,
         query |-> <<"SELECT">> \o JoinNames(fields, Comma) \o <<"FROM", "seat_table">>
                      \o (IF Len(filters) > 0
                          THEN <<"WHERE">> \o Join(filters, "AND") ELSE <<>>)
                      \o SortClause(req.sort),
         args |-> byParam.args \o bySearch.args]

\* The statement GetRooms builds.
RoomsQuery(req) ==
    LET fields == SelectFields("room", req.header)
    IN  [fields |-> fields,
         query |-> <<"SELECT">> \o JoinNames(fields, Comma) \o <<"FROM", "room_table">>,
         args |-> <<>>]

\* The answer to a list request: the statement sent, the columns and the
\* rows the database returned.
ListResponse(status, msg, built, rows) ==
    [op |-> "List", status |-> status, msg |-> msg, rec |-> rows,
     columns |-> built.fields, query |-> built.query, args |-> built.args]

\* GetSeats / GetRooms on a table without rows: the database fails the
\* query, or returns the empty result with the columns selected.
ListResult(built, dbOk) ==
    IF ~dbOk THEN ListResponse(500, "db error", built, <<>>)
    ELSE ListResponse(200, "", built, <<>>)

List(built, dbOk) ==
    /\ listReq.pending
    /\ DOMAIN table = {}
    /\ resp' = ListResult(built, dbOk)
    /\ listReq' = [listReq EXCEPT !.pending = FALSE]
    /\ UNCHANGED <<res, table, autoInc, EnqueueJobHandler, queueVars, reqs>>

(***************************************************************************)
(* The requests of a behaviour.                                            *)
(***************************************************************************)
Codes == 1..MaxKey

PathVars == {Itoa(k) : k \in Codes} \cup {"abc"}

\* The bodies and the orders in which a handler may range over the decoded
\* map, computed once per resource.
Requests ==
    [r \in Resources |->
        LET code == Schema[r].code
            title == Schema[r].title
            width == Schema[r].width
            minimal(k) == (code :> Num(2 * k)) @@ (title :> Str("A1"))
            dressed(k) ==
                minimal(k) @@ (width :> Num(100)) @@ (Schema[r].height :> Num(120))
                    @@ (Schema[r].background :> Str("#111111"))
                    @@ ("title_background_color" :> Str("#222222"))
                    @@ ("title_text_color" :> Str("#333333"))
            codeParts ==
                {<<>>, code :> Str("1")} \cup {code :> Num(h) : h \in 2..(2 * MaxKey)}
            payloads ==
                {<<>>,
                 title :> Str("B"),
                 (title :> Str("B")) @@ (width :> Num(240)),
                 "bogus" :> Str("x"),
                 "auto_increment" :> Num(18),
                 (title :> Str("B")) @@ ("bogus" :> Str("x")),
                 width :> Num(1)}
            updates == {Object(c @@ p) : c \in codeParts, p \in payloads} \cup {Malformed}
        IN  [create |->
                {Object(minimal(k)) : k \in Codes} \cup {Object(dressed(k)) : k \in Codes}
                    \cup {Malformed, Object(code :> Str("1"))},
             update |->
                UNION {{[body |-> b, order |-> o] : o \in Perms(DOMAIN b.obj \ {code})}
                         : b \in updates}]]

CreateBodies(r) == Requests[r].create
UpdateRequests(r) == Requests[r].update

\* The X-Fields headers: up to MaxNames names, each with or without a blank
\* before and after it, joined by commas.  A name is the business key, a
\* column, a word that is no column, or nothing.
HeaderNames(r) == {CodeCol(r), "gender", "password", ""}

NameText(r, name) ==
    IF name = "" THEN <<>>
    ELSE IF name = CodeCol(r) THEN <<r, "_code">>
    ELSE <<name>>

EntryText(r, e) ==
    (IF e.lead THEN <<Blank>> ELSE <<>>) \o NameText(r, e.name)
        \o (IF e.trail THEN <<Blank>> ELSE <<>>)

HeaderOf(r, es) == Join([i \in 1..Len(es) |-> EntryText(r, es[i])], Comma)

\* The headers, each with the names it was written from, computed once.
HeaderTable ==
    [r \in Resources |->
        {[text |-> HeaderOf(r, es), names |-> [i \in 1..Len(es) |-> es[i].name]] :
            es \in UNION {[1..n -> [name : HeaderNames(r), lead : BOOLEAN, trail : BOOLEAN]] :
                             n \in 0..MaxNames}}]

Headers(r) == {h.text : h \in HeaderTable[r]}

\* The values of the query parameters: a number, and a text that would
\* change the statement were it written into it.
FilterValues == {"7", "1 OR 1=1"}

\* The query parameters of a request: up to MaxFilters of the filter
\* parameters and of one parameter GetSeats does not know.
ParamSets ==
    UNION {[S -> FilterValues] :
              S \in {T \in SUBSET (DOMAIN filterParams \cup {"chain_code"}) :
                        Cardinality(T) <= MaxFilters}}

\* Two of the orders in which range may yield filterParams.
Orders ==
    LET order == <<"company_code", "seat_code", "gender", "waiting", "release",
                   "kiosk_disabled", "power_control">>
    IN  {order, Reverse(order)}

Searches == {"", "A"}

Sorts ==
    {<<>>, <<"seat_code">>, <<"-", "seat_code">>, <<"seat_title">>,
     <<"-", "seat_title">>, <<"-", "auto_increment">>, <<"gender">>, <<"-">>,
     <<"-", "-", "seat_code">>, <<"seat_code", Blank, "DESC">>}

\* The list requests, computed once: every header with no parameter, and
\* the parameters under no header; two parameters at once, and the
\* two orders, come with the default sort only.
ListRequests ==
    [r \in Resources |->
        {ListRequest(TRUE, h, <<>>, <<>>, "", <<>>) : h \in Headers(r)}
        \cup
        (IF r = "seat"
         THEN {ListRequest(TRUE, <<>>, ps, order, search, sort) :
                  ps \in {p \in ParamSets : Cardinality(DOMAIN p) <= 1},
                  order \in {o \in Orders : o[1] = "company_code"},
                  search \in Searches, sort \in Sorts}
              \cup
              {ListRequest(TRUE, <<>>, ps, order, search, <<>>) :
                  ps \in ParamSets, order \in Orders, search \in Searches}
         ELSE {})]


\* What the handler makes of the update requests, computed once: requests
\* that are refused alike, or lead to the same statement, are one plan.
Plans ==
    [r \in Resources |->
        {UpdatePlan(r, p, u.body, u.order) : p \in PathVars, u \in UpdateRequests(r)}]

\* A full channel: QueueCap jobs enqueued earlier and not yet taken by a
\* worker (SpecMain reaches it from the empty channel).
Backlogs == [r \in Resources |-> [i \in 1..QueueCap |-> Job(JobName(r), 1, i - QueueCap)]]

Backlog(r) == Backlogs[r]

GetSeat == res = "seat" /\ \E p \in PathVars, dbOk \in BOOLEAN : Get(p, dbOk)
GetRoom == res = "room" /\ \E p \in PathVars, dbOk \in BOOLEAN : Get(p, dbOk)

CreateSeat ==
    res = "seat" /\ \E b \in CreateBodies(res), dbOk \in BOOLEAN : Create(b, dbOk)
CreateRoom ==
    res = "room" /\ \E b \in CreateBodies(res), dbOk \in BOOLEAN : Create(b, dbOk)

DeleteSeat == res = "seat" /\ \E p \in PathVars, dbOk \in BOOLEAN : Delete(p, dbOk)
DeleteRoom == res = "room" /\ \E p \in PathVars, dbOk \in BOOLEAN : Delete(p, dbOk)

Update ==
    \/ \E c \in Conns, plan \in Plans[res], dbOk \in BOOLEAN :
          UpdateExec(c, plan, dbOk)
    \/ \E c \in Conns, dbOk \in BOOLEAN : UpdateRefetch(c, dbOk)

UpdateSeat == res = "seat" /\ Update
UpdateRoom == res = "room" /\ Update

Init ==
    /\ res \in Resources
    /\ table = <<>>
    /\ autoInc = 0
    /\ EnqueueJobHandler = "nil"
    /\ jobQueue \in {<<>>, Backlog(res)}
    /\ clock = 0
    /\ dropped = {}
    /\ started = <<>>
    /\ workers = <<>>
    /\ blocked = 0
    /\ reqs = [c \in Conns |-> Idle]
    /\ resp = NoResponse
    /\ listReq = ListRequest(FALSE, <<>>, <<>>, <<>>, "", <<>>)

Next ==
    \/ SetEnqueueJobFunc("EnqueueJob")
    \/ GetSeat
    \/ GetRoom
    \/ CreateSeat
    \/ CreateRoom
    \/ UpdateSeat
    \/ UpdateRoom
    \/ DeleteSeat
    \/ DeleteRoom

Spec == Init /\ [][Next]_vars

\* Updates of the row of key 1 on MaxRacers connections at once, each
\* writing a title of its own, and deletes, on a table holding the row a
\* create of key 1 has made.
Racers == 1..MaxRacers

RacePlans ==
    [r \in Resources |->
        {UpdatePlan(r, "1", Object(Schema[r].title :> Str(t)), <<Schema[r].title>>) :
            t \in {"B", "C"}}]

Racing ==
    \/ \E c \in Racers, plan \in RacePlans[res], dbOk \in BOOLEAN :
          UpdateExec(c, plan, dbOk)
    \/ \E c \in Racers, dbOk \in BOOLEAN : UpdateRefetch(c, dbOk)

RaceSeat == res = "seat" /\ Racing
RaceRoom == res = "room" /\ Racing

InitRace ==
    /\ res \in Resources
    /\ table = InsertRow(<<>>, 0, res,
                         ApplyDefaults(res, DecodeRecord(res,
                             Object((CodeCol(res) :> Num(2))
                                        @@ (Schema[res].title :> Str("A1")))).rec)).table
    /\ autoInc = 1
    /\ EnqueueJobHandler = "EnqueueJob"
    /\ jobQueue = <<>>
    /\ clock = 0
    /\ dropped = {}
    /\ started = <<>>
    /\ workers = <<>>
    /\ blocked = 0
    /\ reqs = [c \in Racers |-> Idle]
    /\ resp = NoResponse
    /\ listReq = ListRequest(FALSE, <<>>, <<>>, <<>>, "", <<>>)

NextRace ==
    \/ RaceSeat
    \/ RaceRoom
    \/ DeleteSeat
    \/ DeleteRoom

SpecRace == InitRace /\ [][NextRace]_vars

GetSeats == res = "seat" /\ \E dbOk \in BOOLEAN : List(SeatsQuery(listReq), dbOk)
GetRooms == res = "room" /\ \E dbOk \in BOOLEAN : List(RoomsQuery(listReq), dbOk)

\* The server with a list request to serve and updates arriving.
InitQuery ==
    /\ res \in Resources
    /\ table = <<>>
    /\ autoInc = 0
    /\ EnqueueJobHandler = "nil"
    /\ jobQueue = <<>>
    /\ clock = 0
    /\ dropped = {}
    /\ started = <<>>
    /\ workers = <<>>
    /\ blocked = 0
    /\ reqs = [c \in Conns |-> Idle]
    /\ resp = NoResponse
    /\ listReq \in ListRequests[res]

NextQuery ==
    \/ GetSeats
    \/ GetRooms
    \/ UpdateSeat
    \/ UpdateRoom

SpecQuery == InitQuery /\ [][NextQuery]_vars

(***************************************************************************)
(* The claims.                                                             *)
(***************************************************************************)
\* The jobs EnqueueJob has been called with so far.
Issued == {Job(JobName(res), 1, t) : t \in 1..clock}

Held(j) == {w \in 1..Len(workers) : workers[w].pc = "select" /\ workers[w].job = j}

\* C1: EnqueueJob never blocks and the channel never holds more than its
\* capacity of 100 jobs; a call made while the channel is full returns at
\* once, leaves the channel as it was, and the job it was given is never
\* dequeued or processed afterwards.
C1_BoundedNonBlocking ==
    /\ [](/\ Len(jobQueue) <= 100
          /\ (EnqueueJobHandler = "EnqueueJob" /\ clock < MaxBurst) => ENABLED MainEnqueue
          /\ \A j \in dropped :
                /\ Count(jobQueue, j) = 0
                /\ Count(started, j) = 0
                /\ Held(j) = {})
    /\ [][(clock' = clock + 1 /\ Len(jobQueue) = 100) =>
            /\ jobQueue' = jobQueue
            /\ started' = started
            /\ workers' = workers
            /\ dropped' = dropped \cup {Job(JobName(res), 1, clock')}]_vars

\* C1's case: a job was dropped at a full channel, the worker has taken jobs
\* since, and the channel has room again without the dropped job in it.
C1_Witness ==
    /\ dropped # {}
    /\ Len(jobQueue) < QueueCap
    /\ Len(started) > 0
    /\ clock = MaxBurst

\* C2: every job accepted into the channel is either still in it, once, or
\* was handed to processJob exactly once, by one worker: never twice, never
\* to two workers, never lost.
C2_ExactlyOnce ==
    /\ \A j \in Issued \ dropped :
          /\ Count(jobQueue, j) + Count(started, j) = 1
          /\ Cardinality(Held(j)) <= Count(started, j)
    /\ \A w \in 1..Len(workers) :
          workers[w].pc = "select" => workers[w].job \in SeqToSet(started)
    /\ Len(started) + Len(jobQueue) + Cardinality(dropped) = clock

\* C2's case: two workers are inside processJob at once, each with a job of
\* its own, while callers have enqueued further jobs.
C2_Witness ==
    /\ Len(workers) = 2
    /\ workers[1].pc = "select"
    /\ workers[2].pc = "select"
    /\ workers[1].job # workers[2].job
    /\ Len(started) >= 3
    /\ jobQueue # <<>>

\* The job of the t-th call of EnqueueJob.
Issue(t) == Job(JobName(res), 1, t)

Queued(j) == Count(jobQueue, j) > 0

\* processJob was called with j and has returned.
Finished(j) == Count(started, j) = 1 /\ Held(j) = {} /\ ~Queued(j)

\* C11: a job is dropped at enqueue time or goes from the channel to one
\* call of processJob and out of it: with a worker running and a fair
\* scheduler every job accepted into the channel is eventually through
\* processJob (processed or timed out); being through processJob and being
\* dropped are final, and a timed-out job is not put back into the channel
\* or handed to processJob again.
C11_Lifecycle ==
    /\ \A t \in 1..MaxEnqueues :
          (Queued(Issue(t)) /\ workers # <<>>) ~> Finished(Issue(t))
    /\ [](\A j \in Issued :
            \/ j \in dropped /\ ~Queued(j) /\ Count(started, j) = 0
            \/ j \notin dropped /\ Count(jobQueue, j) = 1 /\ Count(started, j) = 0
            \/ j \notin dropped /\ ~Queued(j) /\ Count(started, j) = 1)
    /\ [][/\ \A j \in Issued :
               /\ Finished(j) => Finished(j)'
               /\ j \in dropped => j \in dropped'
               /\ (~Queued(j) /\ Queued(j)') => FALSE
          /\ blocked' = blocked + 1 =>
               /\ jobQueue' = jobQueue
               /\ started' = started
               /\ \A w \in 1..Len(workers) :
                     workers'[w] # workers[w] =>
                         \A j \in {workers[w].job} : Finished(j)']_vars

\* C11's case: jobs were dropped at the full channel, a job has timed out,
\* and every job accepted is through processJob.
C11_Witness ==
    /\ dropped # {}
    /\ blocked = 1
    /\ jobQueue = <<>>
    /\ clock = MaxEnqueues
    /\ Issued \ dropped # {}
    /\ \A j \in Issued \ dropped : Finished(j)

\* The bodies of a create that name business key k as a number.
BodiesOfKey(k) ==
    {b \in CreateBodies(res) :
        /\ b.json = "object"
        /\ CodeCol(res) \in DOMAIN b.obj
        /\ b.obj[CodeCol(res)] = Num(2 * k)}

\* C12: on a table whose database rejects duplicate business keys, after
\* every sequence and interleaving of creates, updates and deletes no two
\* rows share a business key: each row is the one row of its key and has a
\* surrogate key of its own; a create with a key that exists is answered
\* 400 when the database gives its verdict on the key, and leaves the table
\* unchanged; no update changes the business key or the surrogate key of a
\* row.
C12_UniqueKey ==
    /\ [](\A k \in DOMAIN table :
            /\ table[k][CodeCol(res)] = k
            /\ \A l \in DOMAIN table \ {k} :
                  table[l]["auto_increment"] # table[k]["auto_increment"])
    /\ [][/\ \A k \in DOMAIN table, dbOk \in BOOLEAN :
               \A b \in BodiesOfKey(k) :
                 Create(b, dbOk) =>
                   /\ table' = table
                   /\ resp'.status \in {400, 500}
                   /\ dbOk => resp'.status = 400
          /\ \A k \in DOMAIN table \cap DOMAIN table' :
               /\ table'[k][CodeCol(res)] = table[k][CodeCol(res)]
               /\ table'[k]["auto_increment"] = table[k]["auto_increment"]]_vars

\* C12's case: with a row updated in the table, a create with the key of a
\* row was refused.
C12_Witness ==
    /\ resp.op = "Create"
    /\ resp.status = 400
    /\ resp.msg = "already exists"
    /\ clock = 1
    /\ \E k \in DOMAIN table : table[k][Schema[res].title] = "B"

\* C13: an update answered 200 carries, for every allow-listed field of its
\* body, the value this request wrote, also when other updates or deletes
\* of the same key run between its UPDATE and its re-fetch.
C13_ResponseCarriesWrite ==
    [][\A c \in DOMAIN reqs :
          (UpdateRefetch(c, TRUE) /\ resp'.status = 200) =>
              \A i \in 1..(Len(reqs[c].args) - 1) :
                  resp'.rec[reqs[c].query[4 * i]] = Bound(reqs[c].args[i])]_vars

\* The jobs handed to the enqueue function for key k: accepted or dropped.
HandedOver(k) ==
    {j \in SeqToSet(jobQueue) \cup dropped : j.Data.code = k /\ j.Data.time >= 1}

\* C14: a job is handed to the enqueue function only by an update that has
\* changed the row of the path key and is answered 200: the step that hands
\* a job over has a row of that key to change, and the request is then
\* answered 200, never 400, 404 or 500.
C14_JobOnlyAfterSuccess ==
    [][\A c \in Conns :
          /\ (reqs[c].pc = "idle" /\ reqs'[c].pc = "refetch"
                  /\ (jobQueue' # jobQueue \/ dropped' # dropped)) =>
                 \A k \in {reqs'[c].seatCode} :
                     /\ k \in DOMAIN table
                     /\ Cardinality(HandedOver(k)') = Cardinality(HandedOver(k)) + 1
          /\ \A dbOk \in BOOLEAN :
                 (UpdateRefetch(c, dbOk) /\ HandedOver(reqs[c].seatCode) # {}) =>
                     resp'.status = 200]_vars

\* The requests UpdateSeat / UpdateRoom may get: the path variable, the body
\* and the order in which the decoded map is ranged over.
UpdateInputs(r) ==
    {<<p, u>> : p \in PathVars, u \in UpdateRequests(r)}

\* The body names the business key with a value that is not the integer
\* equal to the path key.
KeyMismatch(r, in) ==
    /\ ~Atoi(in[1]).err
    /\ in[2].body.json = "object"
    /\ CodeCol(r) \in DOMAIN in[2].body.obj
    /\ in[2].body.obj[CodeCol(r)] # Num(2 * Atoi(in[1]).n)

\* Once the business key is taken out, the body is empty or holds only keys
\* outside the update allow-list.
NothingToSet(r, in) ==
    /\ in[2].body.json = "object"
    /\ (DOMAIN in[2].body.obj \ {CodeCol(r)}) \cap Schema[r].allowed = {}

\* What the handler makes of the requests of either kind, computed once.
PlansOf ==
    [r \in Resources |->
        [mismatch |-> {UpdatePlan(r, in[1], in[2].body, in[2].order) :
                          in \in {i \in UpdateInputs(r) : KeyMismatch(r, i)}},
         nothing |-> {UpdatePlan(r, in[1], in[2].body, in[2].order) :
                          in \in {i \in UpdateInputs(r) : NothingToSet(r, i)}}]]

\* The step is the handler of a request, on some connection, up to its
\* UPDATE, which the database runs (dbOk) or fails.
UpdateStep(plan, dbOk) == \E c \in Conns : UpdateExec(c, plan, dbOk)

\* C3: an update whose body names the business key with any value other
\* than the integer equal to the path key is answered 400, changes no row
\* and enqueues no job.
C3_KeyMismatchRefused ==
    [][\A plan \in PlansOf[res].mismatch :
          UpdateStep(plan, TRUE) =>
              /\ resp'.op = "Update"
              /\ resp'.status = 400
              /\ table' = table
              /\ jobQueue' = jobQueue
              /\ reqs' = reqs]_vars

\* C4: an update whose body, the business key aside, is empty or holds only
\* keys outside the allow-list is answered 400; no UPDATE runs, no row
\* changes, no job is enqueued.
C4_EmptyUpdateRefused ==
    [][\A plan \in PlansOf[res].nothing, dbOk \in BOOLEAN :
          UpdateStep(plan, dbOk) =>
              /\ resp'.op = "Update"
              /\ resp'.status = 400
              /\ table' = table
              /\ jobQueue' = jobQueue
              /\ dropped' = dropped
              /\ clock' = clock
              /\ reqs' = reqs]_vars

\* C4's case: with rows in the table and the enqueue function registered, an
\* update naming only keys outside the allow-list was refused.
C4_Witness ==
    /\ resp.op = "Update"
    /\ resp.status = 400
    /\ resp.msg = "no valid fields"
    /\ DOMAIN table # {}
    /\ EnqueueJobHandler = "EnqueueJob"

\* The step is DeleteSeat / DeleteRoom of path variable p.
DeleteStep(p, dbOk) == Delete(p, dbOk)

Supplied(val) == IF val.t = "float64" THEN val.v \div 2 ELSE val.v

\* The documented defaults of the optional fields.
Defaults ==
    (Schema[res].width :> 100) @@ (Schema[res].height :> 100)
        @@ (Schema[res].background :> "#FFFFFF")
        @@ ("title_background_color" :> "#000000")
        @@ ("title_text_color" :> "#FFFFFF")

\* C6: a create that succeeds returns, and a following get by the same
\* business key returns, the defaults (100, 100, "#FFFFFF", "#000000",
\* "#FFFFFF") for the dimension and color fields the body leaves out, and
\* the supplied value for the fields it gives.
C6_CreateDefaults ==
    [][\A b \in CreateBodies(res), dbOk \in BOOLEAN :
          (Create(b, dbOk) /\ resp'.status = 201) =>
              LET got == GetResult(table', Itoa(resp'.rec[CodeCol(res)]), TRUE)
              IN  /\ got.status = 200
                  /\ \A c \in DOMAIN Defaults :
                        LET want == IF c \in DOMAIN b.obj
                                    THEN Supplied(b.obj[c]) ELSE Defaults[c]
                        IN  resp'.rec[c] = want /\ got.rec[c] = want
                  /\ \A c \in {CodeCol(res), Schema[res].title} :
                        /\ resp'.rec[c] = Supplied(b.obj[c])
                        /\ got.rec[c] = Supplied(b.obj[c])]_vars

\* C6's case: a create that left the optional fields out was answered 201
\* with the defaults, and the row of its key holds them, beside a row created
\* with the fields supplied.
C6_Witness ==
    /\ resp.op = "Create"
    /\ resp.status = 201
    /\ resp.rec[Schema[res].width] = 100
    /\ resp.rec["title_text_color"] = "#FFFFFF"
    /\ resp.rec[CodeCol(res)] \in DOMAIN table
    /\ table[resp.rec[CodeCol(res)]][Schema[res].height] = 100
    /\ \E k \in DOMAIN table : table[k][Schema[res].height] = 60

\* C8: every lookup by key that finds no row is answered 404: GetSeat /
\* GetRoom, and the re-fetch of UpdateSeat / UpdateRoom.
C8_MissingRowIs404 ==
    [][/\ \A p \in PathVars :
            (~Atoi(p).err /\ Atoi(p).n \notin DOMAIN table /\ Get(p, TRUE))
                => resp'.status = 404
       /\ \A c \in Conns :
            (UpdateRefetch(c, TRUE) /\ reqs[c].seatCode \notin DOMAIN table)
                => resp'.status = 404]_vars

\* What the caller sees of an update's first half: the answer, the table,
\* and the handler going on to the re-fetch.
Seen(out) == <<out.resp, out.table, out.handler>>

\* C10: what UpdateSeat / UpdateRoom answers and does to the table is the
\* same whether the queue is empty or full and whether or not an enqueue
\* function is registered, and the handler never waits for the queue.
C10_QueueIndependent ==
    /\ \A plan \in Plans[res], dbOk \in BOOLEAN :
          \A h \in {"nil", "EnqueueJob"}, q \in {<<>>, Backlog(res)} :
              Seen(UpdateOutcome(table, EnqueueJobHandler, jobQueue, clock, res, plan, dbOk))
                  = Seen(UpdateOutcome(table, h, q, clock, res, plan, dbOk))
    /\ \A c \in Conns :
          /\ (reqs[c].pc = "idle" /\ clock < MaxUpdates * Len(reqs)) =>
                \A plan \in Plans[res], dbOk \in BOOLEAN : ENABLED UpdateExec(c, plan, dbOk)
          /\ reqs[c].pc = "refetch" =>
                \A dbOk \in BOOLEAN : ENABLED UpdateRefetch(c, dbOk)

\* C10's case: with the queue full and the enqueue function registered, an
\* update was answered 200 with the row it changed, its job dropped.
C10_Witness ==
    /\ resp.op = "Update"
    /\ resp.status = 200
    /\ resp.rec[Schema[res].title] = "B"
    /\ EnqueueJobHandler = "EnqueueJob"
    /\ Len(jobQueue) = QueueCap
    /\ \E j \in dropped : j.Data.time = clock

\* The name lists an X-Fields header may have been written from.
WrittenFrom ==
    [r \in Resources |->
        [text \in Headers(r) |-> {h.names : h \in {g \in HeaderTable[r] : g.text = text}}]]

\* The names of a list that are columns of the resource, in the list's order.
RECURSIVE Known(_, _)
Known(r, names) ==
    IF names = <<>> THEN <<>>
    ELSE (IF Head(names) \in Schema[r].columns THEN <<Head(names)>> ELSE <<>>)
             \o Known(r, Tail(names))

\* C7: the columns GetSeats / GetRooms selects are the names of the X-Fields
\* header, split at the commas and trimmed, that are in the resource's
\* allow-list, in the order of the header; with no header, or none of its
\* names in the allow-list, they are the whole allow-list: the selection is
\* never empty and never holds a name outside the allow-list.
C7_FieldSelection ==
    resp.op = "List" =>
        /\ Len(resp.columns) > 0
        /\ \A i \in 1..Len(resp.columns) : resp.columns[i] \in Schema[res].columns
        /\ listReq.header \in Headers(res)
        /\ \A names \in WrittenFrom[res][listReq.header] :
              resp.columns = IF Known(res, names) = <<>>
                             THEN Schema[res].fields ELSE Known(res, names)
        /\ resp.query[1] = "SELECT"
        /\ \A i \in 1..Len(resp.columns) : resp.query[2 * i] = resp.columns[i]
        /\ resp.query[2 * Len(resp.columns) + 1] = "FROM"

\* C7's case: a header naming two columns, with blanks around a name, was
\* answered with the two columns in the header's order.
C7_Witness ==
    /\ resp.op = "List"
    /\ resp.status = 200
    /\ resp.columns = <<"gender", CodeCol(res)>>
    /\ \E i \in 1..Len(listReq.header) : listReq.header[i] = Blank

\* The words of a statement that no request supplies.
Keywords ==
    {"SELECT", "FROM", "WHERE", "AND", "LIKE", "ORDER BY", "ASC", "DESC",
     "UPDATE", "SET", "=", Comma}

PlaceholderWords == {Placeholders[i] : i \in 1..Len(Placeholders)}

IsPlaceholder(word) == word \in PlaceholderWords

\* The statements sent to the database that the state shows: the one of the
\* list request answered last, and those of the updates in flight.
Sent ==
    (IF resp.op = "List" THEN {[query |-> resp.query, args |-> resp.args]} ELSE {})
        \cup {[query |-> reqs[c].query, args |-> reqs[c].args] :
                 c \in {d \in Conns : reqs[d].pc = "refetch"}}

\* The values a list request supplies.
SuppliedValues ==
    {listReq.params[p] : p \in DOMAIN listReq.params}
        \cup (IF listReq.search = "" THEN {} ELSE {listReq.search})

\* C9: in every statement GetSeats, GetRooms, UpdateSeat and UpdateRoom
\* build, each word is a keyword, a placeholder, or a table or column name of
\* a hard-coded list (the sort column one of the three sort fields, a SET
\* column one of the update allow-list); the values of the request (filter
\* values, search term, update values, path key) are in the argument list,
\* one per placeholder, and never in the text.
C9_ParameterizedOnly ==
    /\ \A st \in Sent :
          /\ \A i \in 1..Len(st.query) :
                /\ st.query[i] \in
                      Keywords \cup PlaceholderWords \cup Schema[res].columns
                          \cup {TableName(res)}
                /\ st.query[i] = "ORDER BY" =>
                      st.query[i + 1] \in {"seat_code", "seat_title", "auto_increment"}
                /\ (st.query[1] = "UPDATE" /\ st.query[i] \in {"SET", Comma}) =>
                      st.query[i + 1] \in Schema[res].allowed
          /\ SelectSeq(st.query, IsPlaceholder) =
                [i \in 1..Len(st.args) |-> Placeholders[i]]
    /\ resp.op = "List" =>
          /\ \A i \in 1..Len(resp.query) : resp.query[i] \notin SuppliedValues
          /\ Len(resp.args) =
                Cardinality(DOMAIN listReq.params \cap DOMAIN filterParams)
                    + (IF listReq.search = "" THEN 0 ELSE 1)
          /\ \A p \in DOMAIN listReq.params \cap DOMAIN filterParams :
                \E i \in 1..Len(resp.args) :
                    /\ resp.args[i] = Str(listReq.params[p])
                    /\ resp.query[Len(resp.query) - Len(SortClause(listReq.sort))
                                      - 4 * (Len(resp.args) - i) - 2] = p
          /\ listReq.search # "" =>
                resp.args[Len(resp.args)] = Str("%" \o listReq.search \o "%")
    /\ \A c \in Conns :
          reqs[c].pc = "refetch" =>
              /\ Len(reqs[c].args) >= 2
              /\ reqs[c].args[Len(reqs[c].args)] = IntArg(reqs[c].seatCode)
              /\ \A i \in 1..(Len(reqs[c].args) - 1) :
                    reqs[c].args[i].t \in {"float64", "string", "int"}

\* C9's case: a list request with two filter values and a search term was
\* answered, a value being SQL text, while an update statement is in flight.
C9_Witness ==
    /\ resp.op = "List"
    /\ Len(resp.args) = 3
    /\ \E i \in 1..2 : resp.args[i] = Str("1 OR 1=1")
    /\ \E c \in Conns : reqs[c].pc = "refetch" /\ Len(reqs[c].args) >= 2

\* The requests that reach the UPDATE, computed once: the statement, the
\* path key, the allow-listed keys of the body in the order the map is
\* ranged over, and the value the body gives for each.
UpdateCases ==
    [r \in Resources |->
        {[plan |-> UpdatePlan(r, in[1], in[2].body, in[2].order),
          k |-> Atoi(in[1]).n,
          order |-> Filter(in[2].order, Schema[r].allowed),
          writes |-> [c \in (DOMAIN in[2].body.obj \ {CodeCol(r)}) \cap Schema[r].allowed
                        |-> Supplied(in[2].body.obj[c])]] :
            in \in {i \in UpdateInputs(r) :
                       UpdatePlan(r, i[1], i[2].body, i[2].order).msg = ""}}]

\* C15: an update with path key k whose UPDATE succeeds sets, in the row of
\* key k, exactly the allow-listed fields of the body, each to the value the
\* body gives for it: the i-th placeholder is bound to the value of the
\* i-th SET column and the last to k, in every order the body map is
\* ranged over; every other column of the row and every other row is left
\* as it was.
C15_UpdateFrame ==
    [][\A e \in UpdateCases[res], c \in Conns :
          (UpdateExec(c, e.plan, TRUE) /\ reqs'[c].pc = "refetch") =>
              LET q == reqs'[c].query
                  a == reqs'[c].args
                  n == Len(e.order)
              IN  /\ table' =
                        IF e.k \in DOMAIN table
                        THEN [table EXCEPT ![e.k] =
                                 [col \in DOMAIN @ |->
                                     IF col \in DOMAIN e.writes
                                     THEN e.writes[col] ELSE @[col]]]
                        ELSE table
                  /\ Len(a) = n + 1
                  /\ Len(q) = 4 * n + 6
                  /\ \A i \in 1..n :
                        /\ q[4 * i] = e.order[i]
                        /\ q[4 * i + 2] = Placeholders[i]
                        /\ Bound(a[i]) = e.writes[e.order[i]]
                  /\ q[4 * n + 4] = CodeCol(res)
                  /\ q[4 * n + 6] = Placeholders[n + 1]
                  /\ a[n + 1] = IntArg(e.k)]_vars

\* C15's case: beside another row, the row of the path key has the width
\* and the title of a body whose map was ranged over width first.
C15_Witness ==
    /\ Cardinality(DOMAIN table) = 2
    /\ \E c \in Conns :
          /\ reqs[c].pc = "refetch"
          /\ Len(reqs[c].args) = 3
          /\ reqs[c].query[4] = Schema[res].width
          /\ reqs[c].seatCode \in DOMAIN table
          /\ table[reqs[c].seatCode][Schema[res].width] = 120
          /\ table[reqs[c].seatCode][Schema[res].title] = "B"
          /\ \E k \in DOMAIN table : table[k][Schema[res].title] = "A1"

\* The ORDER BY clause the sort parameter asks for: the default without the
\* parameter, the field ascending, or descending after "-", for the three
\* sort fields, and none for every other value.
OrderWanted(sort) ==
    IF sort = <<>> THEN <<"ORDER BY", "seat_code", "ASC">>
    ELSE IF \E f \in {"seat_code", "seat_title", "auto_increment"} : sort = <<f>>
    THEN <<"ORDER BY", sort[1], "ASC">>
    ELSE IF \E f \in {"seat_code", "seat_title", "auto_increment"} : sort = <<"-", f>>
    THEN <<"ORDER BY", sort[2], "DESC">>
    ELSE <<>>

\* C16: the statement of GetSeats has at most one ORDER BY clause, on one
\* column, at its end: ORDER BY seat_code ASC without a sort parameter,
\* ORDER BY f ASC for sort=f and ORDER BY f DESC for sort=-f with f one of
\* seat_code, seat_title, auto_increment, and no ORDER BY at all for every
\* other value, which is ignored: the request is not refused.
C16_SingleSort ==
    (resp.op = "List" /\ res = "seat") =>
        LET want == OrderWanted(listReq.sort)
            n == Len(resp.query)
        IN  /\ Count(resp.query, "ORDER BY") = (IF want = <<>> THEN 0 ELSE 1)
            /\ SubSeq(resp.query, n - Len(want) + 1, n) = want
            /\ resp.status \in {200, 500}
            /\ resp.status = 500 => resp.msg = "db error"

\* C16's case: a request sorted by a column outside the sort fields, with a
\* filter, was answered 200 by a statement without ORDER BY.
C16_Witness ==
    /\ resp.op = "List"
    /\ resp.status = 200
    /\ listReq.sort = <<"gender">>
    /\ Len(resp.args) = 2
    /\ Count(resp.query, "ORDER BY") = 0

\* The work goroutines alive: one per processJob call at its select, and
\* those a timed-out call left at their send on done.
LiveGoroutines ==
    blocked + Cardinality({w \in 1..Len(workers) : workers[w].pc = "select"})

\* C17: every goroutine processJob starts comes to its end, after the done
\* branch and after the timeout branch alike, so the work goroutines alive
\* are never more than the workers.
C17_GoroutinesTerminate ==
    /\ [](LiveGoroutines <= Len(workers))
    /\ (blocked > 0) ~> (blocked = 0)

====
